---------------------------- MODULE Spec2Model ----------------------------
(***************************************************************************)
(* Model of the two Kokoro TTS servers of the repository:                  *)
(*   src/app.py                 the single-voice server ("single")         *)
(*   src/kakora_server_lock.py  the multi-accent server ("multi")          *)
(*                                                                         *)
(* A behaviour is one process: it starts (engine loading), then serves     *)
(* POST requests.  A request handler is split at the points where the      *)
(* engine's generator is advanced, so the drain loop is a sequence of      *)
(* steps.  Requests are handled one after the other: the handlers share    *)
(* only the module-level pool (which they read) and the temporary          *)
(* directory (where every file gets a fresh name).                         *)
(*                                                                         *)
(* Data representation                                                     *)
(*   text   a run-length encoded string: a sequence of runs [ch, n]        *)
(*          (n > 0, adjacent runs differ), so that a 5001 character text   *)
(*          is a small value while len() and strip() are still computed.   *)
(*   speed  in hundredths (0.5 is 50, 2.0 is 200, 1.0 is 100).             *)
(*   body   a JSON object: the set `has` of its keys and their values;     *)
(*          a key that is absent holds a fixed filler value.               *)
(*   chunk  a sequence of samples.                                         *)
(***************************************************************************)
EXTENDS Integers, Sequences, FiniteSets, TLC

VARIABLES
    variant,         \* which server this process is: "single" or "multi"
    phase,           \* "startup", "serving" or "exited"
    pipeline,        \* app.py: the global `pipeline` (None or an engine)
    pipelines,       \* kakora_server_lock.py: the global dict `pipelines`
    load_idx,        \* position of the `for accent, config in ...` loop
    constructed,     \* per accent: how many times KPipeline(...) was called
    load_ok,         \* the accents whose KPipeline(...) call returned
    pc,              \* the handler's position: "idle", "drain", "responded"
    endpoint,        \* the route of the request being handled
    data,            \* request.get_json() of the request being handled
    call,            \* the engine invocation made for the request, if any
    generator,       \* "none", "running", "exhausted" or "raised"
    yielded,         \* the chunks the generator has produced, in order
    audio_segments,  \* the handler's list `audio_segments`
    response,        \* the response returned by the handler
    temp_files       \* names of the files living in the temporary directory

vars == <<variant, phase, pipeline, pipelines, load_idx, constructed, load_ok,
          pc, endpoint, data, call, generator, yielded, audio_segments,
          response, temp_files>>

poolVars == <<pipeline, pipelines, load_idx, constructed, load_ok>>

-----------------------------------------------------------------------------
(* Bounds of the model *)

\* longest segment sequence a generator produces
MaxChunks == 2

\* most temporary files the model lets accumulate
MaxTempFiles == 2

-----------------------------------------------------------------------------
(* Program constants *)

MAX_TEXT_LEN == 5000
MIN_SPEED == 50
MAX_SPEED == 200
DEFAULT_SPEED == 100
SAMPLE_RATE == 24000

VOICE == "af_heart"
DEFAULT_VOICE == "af_heart"
DEFAULT_ACCENT == "british"
None == "None"

\* accent_configs, in the order the dict is written (and iterated)
accent_order == <<"british", "american", "spanish", "french", "italian">>

accent_configs ==
    [a \in {accent_order[i] : i \in 1..Len(accent_order)} |->
        CASE a = "british"  -> "b"
          [] a = "american" -> "a"
          [] a = "spanish"  -> "e"
          [] a = "french"   -> "f"
          [] a = "italian"  -> "i"]

-----------------------------------------------------------------------------
(* Strings *)

Whitespace == {" ", "\t", "\n"}

RECURSIVE len(_)
\* len(text): the number of characters
len(s) == IF s = <<>> THEN 0 ELSE Head(s).n + len(Tail(s))

RECURSIVE lstrip(_)
lstrip(s) ==
    IF s = <<>> THEN <<>>
    ELSE IF Head(s).ch \in Whitespace THEN lstrip(Tail(s)) ELSE s

RECURSIVE rstrip(_)
rstrip(s) ==
    IF s = <<>> THEN <<>>
    ELSE IF s[Len(s)].ch \in Whitespace
         THEN rstrip(SubSeq(s, 1, Len(s) - 1)) ELSE s

\* text.strip()
strip(s) == rstrip(lstrip(s))

Run(c, k) == [ch |-> c, n |-> k]

-----------------------------------------------------------------------------
(* Request bodies *)

Texts ==
    { <<>>,                                              \* ""
      <<Run(" ", 3)>>,                                   \* "   "
      <<Run("a", 2)>>,                                   \* "aa"
      <<Run(" ", 1), Run("a", 4998), Run(" ", 1)>>,      \* raw length 5000
      <<Run("a", 5001)>>,                                \* raw length 5001
      <<Run("a", 4999), Run(" ", 2)>>,                   \* 5001, stripped 4999
      <<Run(" ", 5001)>> }                               \* 5001 blanks

Speeds == {49, 50, 200, 201}

Accents == {"british", "american", "klingon"}

Voices == {"am_mike"}

Fields == {"text", "speed", "accent", "voice"}

\* the JSON object with the keys `has`
Body(has, t, s, a, v) ==
    [has    |-> has,
     text   |-> IF "text" \in has THEN t ELSE <<>>,
     speed  |-> IF "speed" \in has THEN s ELSE 0,
     accent |-> IF "accent" \in has THEN a ELSE "",
     voice  |-> IF "voice" \in has THEN v ELSE ""]

Bodies ==
    { Body(has, t, s, a, v) :
        has \in SUBSET Fields, t \in Texts, s \in Speeds,
        a \in Accents, v \in Voices }

NoBody == Body({}, <<>>, 0, "", "")

\* data.get(key, default)
get(d, key, default) == IF key \in d.has THEN d[key] ELSE default

\* data with data[key] = value
set(d, key, value) == [d EXCEPT !.has = @ \cup {key}, ![key] = value]

-----------------------------------------------------------------------------
(* Engine pool *)

Configured == DOMAIN accent_configs

\* list(pipelines.keys()): the keys in insertion order
keys(pool) == SelectSeq(accent_order, LAMBDA a : a \in DOMAIN pool)

\* pipelines[accent] = engine
insert(pool, accent, engine) ==
    [a \in DOMAIN pool \cup {accent} |-> IF a = accent THEN engine ELSE pool[a]]

EmptyPool == [a \in {} |-> ""]

-----------------------------------------------------------------------------
(* Responses and engine calls *)

NoResponse ==
    [status |-> 0, kind |-> "none", lists |-> FALSE, keys |-> <<>>,
     audio |-> <<>>, rate |-> 0, file |-> 0]

\* jsonify({'error': ...}), status
Error(status, kind) == [NoResponse EXCEPT !.status = status, !.kind = kind]

NoCall == [made |-> FALSE, lang |-> "", voice |-> "", speed |-> 0]

\* the handler returns without touching the engine
Reject(resp) == [response |-> resp, call |-> NoCall]

\* generator = pipeline(text, voice=voice, speed=speed)
Invoke(engine, voice, speed) ==
    [response |-> NoResponse,
     call |-> [made |-> TRUE, lang |-> engine, voice |-> voice, speed |-> speed]]

-----------------------------------------------------------------------------
(* Handlers, up to the engine invocation *)

\* app.py, POST /tts
single_text_to_speech(d) ==
    IF pipeline = None
    THEN Reject(Error(500, "PipelineNotInitialized"))
    ELSE IF d.has = {} \/ "text" \notin d.has
    THEN Reject(Error(400, "MissingField"))
    ELSE LET text  == d.text
             speed == get(d, "speed", DEFAULT_SPEED)
         IN  IF strip(text) = <<>>
             THEN Reject(Error(400, "EmptyText"))
             ELSE IF len(text) > MAX_TEXT_LEN
             THEN Reject(Error(400, "TextTooLong"))
             ELSE IF speed < MIN_SPEED \/ speed > MAX_SPEED
             THEN Reject(Error(400, "SpeedOutOfRange"))
             ELSE Invoke(pipeline, VOICE, speed)

\* kakora_server_lock.py, POST /tts
text_to_speech(d) ==
    IF d.has = {} \/ "text" \notin d.has
    THEN Reject(Error(400, "MissingField"))
    ELSE LET text   == d.text
             accent == get(d, "accent", DEFAULT_ACCENT)
             voice  == get(d, "voice", DEFAULT_VOICE)
             speed  == get(d, "speed", DEFAULT_SPEED)
         IN  IF strip(text) = <<>>
             THEN Reject(Error(400, "EmptyText"))
             ELSE IF len(text) > MAX_TEXT_LEN
             THEN Reject(Error(400, "TextTooLong"))
             ELSE IF accent \notin DOMAIN pipelines
             THEN Reject([Error(400, "UnknownAccent") EXCEPT
                             !.lists = TRUE, !.keys = keys(pipelines)])
             ELSE Invoke(pipelines[accent], voice, speed)

\* `request.json = data`: Request.json is a property without a setter, and
\* the assignment raises AttributeError
RequestJsonAssignable == FALSE

\* kakora_server_lock.py, POST /tts/british
british_tts(d) ==
    LET forced == set(IF d.has = {} THEN NoBody ELSE d, "accent", "british")
        \* what request.get_json() returns afterwards: the cached object,
        \* which `data` aliases unless it was replaced by a new {}
        cached == IF d.has = {} THEN d ELSE forced
    IN  IF RequestJsonAssignable
        THEN text_to_speech(cached)
        ELSE Reject(Error(500, "Exception"))

\* kakora_server_lock.py, POST /tts_base64
text_to_speech_base64(d) ==
    IF d.has = {} \/ "text" \notin d.has
    THEN Reject(Error(400, "MissingField"))
    ELSE LET text   == d.text
             accent == get(d, "accent", DEFAULT_ACCENT)
             voice  == get(d, "voice", DEFAULT_VOICE)
             speed  == get(d, "speed", DEFAULT_SPEED)
         IN  IF strip(text) = <<>>
             THEN Reject(Error(400, "EmptyText"))
             ELSE IF accent \notin DOMAIN pipelines
             THEN Reject(Error(400, "UnknownAccent"))
             ELSE Invoke(pipelines[accent], voice, speed)

-----------------------------------------------------------------------------
(* Handlers, from the drain loop on *)

\* the audio chunks an engine may produce
Chunks == { <<1>>, <<2, 3>> }

\* a faulty append: the new chunk goes to the front of the list
append_front(segments, audio) == <<audio>> \o segments

\* audio_segments.append(audio)
append(segments, audio) == Append(segments, audio)

RECURSIVE np_concatenate(_)
\* np.concatenate(audio_segments)
np_concatenate(segments) ==
    IF segments = <<>> THEN <<>>
    ELSE Head(segments) \o np_concatenate(Tail(segments))

\* final_audio
final_audio(segments) ==
    IF Len(segments) = 1 THEN segments[1] ELSE np_concatenate(segments)

\* a name no file of the temporary directory has
fresh_name(files) == Cardinality(files) + 1

\* app.py, POST /tts, after the loop: the response and the files on disk
single_finish(segments, files) ==
    IF segments = <<>>
    THEN [response |-> Error(500, "NoAudioGenerated"), files |-> files]
    ELSE LET temp_file == fresh_name(files)
         IN  [response |-> [NoResponse EXCEPT
                               !.status = 200, !.kind = "File",
                               !.audio = final_audio(segments),
                               !.rate = SAMPLE_RATE, !.file = temp_file],
              files |-> files \cup {temp_file}]

\* a faulty tail of POST /tts: the `if not audio_segments` test is missing
\* and an empty list is answered as a success
tts_finish_unchecked(segments, files) ==
    LET temp_file == fresh_name(files)
    IN  [response |-> [NoResponse EXCEPT
                          !.status = 200, !.kind = "File",
                          !.audio = final_audio(segments),
                          !.rate = SAMPLE_RATE, !.file = temp_file],
         files |-> files \cup {temp_file}]

\* kakora_server_lock.py, POST /tts, after the loop
tts_finish(segments, files) ==
    IF segments = <<>>
    THEN [response |-> Error(500, "NoAudioGenerated"), files |-> files]
    ELSE LET temp_file == fresh_name(files)
         IN  [response |-> [NoResponse EXCEPT
                               !.status = 200, !.kind = "File",
                               !.audio = final_audio(segments),
                               !.rate = SAMPLE_RATE, !.file = temp_file],
              files |-> files \cup {temp_file}]

\* kakora_server_lock.py, POST /tts_base64, after the loop
base64_finish(segments, files) ==
    IF segments = <<>>
    THEN [response |-> Error(500, "NoAudioGenerated"), files |-> files]
    ELSE [response |-> [NoResponse EXCEPT
                           !.status = 200, !.kind = "Base64",
                           !.audio = final_audio(segments),
                           !.rate = SAMPLE_RATE],
          files |-> files]

-----------------------------------------------------------------------------
(* Initial state: the module is loaded, nothing has run *)

Init ==
    /\ variant \in {"single", "multi"}
    /\ phase = "startup"
    /\ pipeline = None
    /\ pipelines = EmptyPool
    /\ load_idx = 1
    /\ constructed = [a \in Configured |-> 0]
    /\ load_ok = {}
    /\ pc = "idle"
    /\ endpoint = "none"
    /\ data = NoBody
    /\ call = NoCall
    /\ generator = "none"
    /\ yielded = <<>>
    /\ audio_segments = <<>>
    /\ response = NoResponse
    /\ temp_files = {}

requestVars == <<pc, endpoint, data, call, generator, yielded, audio_segments,
                 response>>

-----------------------------------------------------------------------------
(* Startup *)

\* app.py: initialize_pipeline() and the `if` of __main__
initialize_pipeline ==
    /\ variant = "single"
    /\ phase = "startup"
    /\ \E loads \in BOOLEAN :
          /\ constructed' = [constructed EXCEPT !["british"] = @ + 1]
          /\ IF loads
             THEN /\ pipeline' = accent_configs["british"]
                  /\ load_ok' = load_ok \cup {"british"}
                  /\ phase' = "serving"
             ELSE /\ pipeline' = pipeline
                  /\ load_ok' = load_ok
                  /\ phase' = "exited"
    /\ UNCHANGED <<variant, pipelines, load_idx, temp_files>>
    /\ UNCHANGED requestVars

\* a faulty loop: the first failed load ends the loop
abort_loading(idx) == Len(accent_order) + 1

\* what the loop does after a KPipeline(...) call raised: the except clause
\* prints, and the loop goes on with the next accent
after_failed_load(idx) == idx + 1

\* kakora_server_lock.py: one iteration of the loop of initialize_pipelines()
load_accent ==
    /\ variant = "multi"
    /\ phase = "startup"
    /\ load_idx <= Len(accent_order)
    /\ LET accent == accent_order[load_idx]
       IN  \E loads \in BOOLEAN :
              /\ constructed' = [constructed EXCEPT ![accent] = @ + 1]
              /\ IF loads
                 THEN /\ pipelines' =
                            insert(pipelines, accent, accent_configs[accent])
                      /\ load_ok' = load_ok \cup {accent}
                      /\ load_idx' = load_idx + 1
                 ELSE /\ pipelines' = pipelines
                      /\ load_ok' = load_ok
                      /\ load_idx' = after_failed_load(load_idx)
    /\ UNCHANGED <<variant, phase, pipeline, temp_files>>
    /\ UNCHANGED requestVars

\* kakora_server_lock.py: the loop is over, __main__ goes on to app.run()
app_run ==
    /\ variant = "multi"
    /\ phase = "startup"
    /\ load_idx > Len(accent_order)
    /\ phase' = "serving"
    /\ UNCHANGED <<variant, temp_files>>
    /\ UNCHANGED poolVars
    /\ UNCHANGED requestVars

-----------------------------------------------------------------------------
(* Requests *)

\* the server is ready to take a request
Ready == phase = "serving" /\ pc = "idle"

\* the handler of route `ep` ran on body `d` up to its first return or to
\* the engine invocation
Enter(ep, d, outcome) ==
    /\ endpoint' = ep
    /\ data' = d
    /\ call' = outcome.call
    /\ response' = outcome.response
    /\ IF outcome.call.made
       THEN pc' = "drain" /\ generator' = "running"
       ELSE pc' = "responded" /\ generator' = "none"
    /\ UNCHANGED <<yielded, audio_segments, temp_files, variant, phase>>
    /\ UNCHANGED poolVars

post_single_tts ==
    /\ variant = "single"
    /\ Ready
    /\ Cardinality(temp_files) < MaxTempFiles
    /\ \E d \in Bodies : Enter("single/tts", d, single_text_to_speech(d))

post_tts ==
    /\ variant = "multi"
    /\ Ready
    /\ Cardinality(temp_files) < MaxTempFiles
    /\ \E d \in Bodies : Enter("/tts", d, text_to_speech(d))

post_tts_british ==
    /\ variant = "multi"
    /\ Ready
    /\ Cardinality(temp_files) < MaxTempFiles
    /\ \E d \in Bodies : Enter("/tts/british", d, british_tts(d))

post_tts_base64 ==
    /\ variant = "multi"
    /\ Ready
    /\ \E d \in Bodies : Enter("/tts_base64", d, text_to_speech_base64(d))

\* one iteration of `for i, (gs, ps, audio) in enumerate(generator)`
next_segment ==
    /\ pc = "drain"
    /\ Len(yielded) < MaxChunks
    /\ \E audio \in Chunks :
          /\ yielded' = Append(yielded, audio)
          /\ audio_segments' = append(audio_segments, audio)
    /\ UNCHANGED <<pc, endpoint, data, call, generator, response, temp_files,
                   variant, phase>>
    /\ UNCHANGED poolVars

\* the generator raises: `except Exception as e` answers 500 with str(e)
generator_raises ==
    /\ pc = "drain"
    /\ generator' = "raised"
    /\ response' = Error(500, "Exception")
    /\ pc' = "responded"
    /\ UNCHANGED <<endpoint, data, call, yielded, audio_segments, temp_files,
                   variant, phase>>
    /\ UNCHANGED poolVars

\* the generator is exhausted: the loop ends and the handler runs to its return
Finish(ep, result) ==
    /\ pc = "drain"
    /\ endpoint = ep
    /\ generator' = "exhausted"
    /\ response' = result.response
    /\ temp_files' = result.files
    /\ pc' = "responded"
    /\ UNCHANGED <<endpoint, data, call, yielded, audio_segments, variant, phase>>
    /\ UNCHANGED poolVars

finish_single_tts == Finish("single/tts", single_finish(audio_segments, temp_files))

\* british_tts returns text_to_speech(): the same code finishes both routes
finish_tts ==
    \E ep \in {"/tts", "/tts/british"} :
        Finish(ep, tts_finish(audio_segments, temp_files))

finish_tts_base64 == Finish("/tts_base64", base64_finish(audio_segments, temp_files))

\* the HTTP layer has sent the response: the request is over
response_sent ==
    /\ pc = "responded"
    /\ pc' = "idle"
    /\ endpoint' = "none"
    /\ data' = NoBody
    /\ call' = NoCall
    /\ generator' = "none"
    /\ yielded' = <<>>
    /\ audio_segments' = <<>>
    /\ response' = NoResponse
    /\ UNCHANGED <<temp_files, variant, phase>>
    /\ UNCHANGED poolVars

Next ==
    \/ initialize_pipeline
    \/ load_accent
    \/ app_run
    \/ post_single_tts
    \/ post_tts
    \/ post_tts_british
    \/ post_tts_base64
    \/ next_segment
    \/ generator_raises
    \/ finish_single_tts
    \/ finish_tts
    \/ finish_tts_base64
    \/ response_sent

Spec == Init /\ [][Next]_vars

-----------------------------------------------------------------------------
(* The validation rules as the specification states them *)

SynthesisEndpoints == {"single/tts", "/tts", "/tts_base64"}

\* a handler has run on the request held in `data`
Handled == pc # "idle"

HasText(d) == "text" \in d.has

Blank(t) == \A i \in 1..Len(t) : t[i].ch \in Whitespace

SpeedOf(d) == IF "speed" \in d.has THEN d.speed ELSE 100

SpeedInRange(d) == 50 <= SpeedOf(d) /\ SpeedOf(d) <= 200

AccentOf(d) == IF "accent" \in d.has THEN d.accent ELSE "british"

AccentKnown(d) == variant = "multi" => AccentOf(d) \in DOMAIN pipelines

TextAcceptable(d) == HasText(d) /\ ~Blank(d.text) /\ len(d.text) <= 5000

PassesAllRules(d) == TextAcceptable(d) /\ SpeedInRange(d) /\ AccentKnown(d)

FirstViolated(d) ==
    CASE ~HasText(d)          -> "MissingField"
      [] Blank(d.text)        -> "EmptyText"
      [] len(d.text) > 5000   -> "TextTooLong"
      [] ~SpeedInRange(d)     -> "SpeedOutOfRange"
      [] ~AccentKnown(d)      -> "UnknownAccent"
      [] OTHER                -> "none"

Rejected(kind) ==
    pc = "responded" /\ response.status = 400 /\ response.kind = kind /\ ~call.made

\* the set of the elements of a sequence
Range(seq) == {seq[i] : i \in 1..Len(seq)}

RECURSIVE InOrder(_)
\* the samples of a chunk sequence, first chunk first
InOrder(chunks) ==
    IF chunks = <<>> THEN <<>>
    ELSE InOrder(SubSeq(chunks, 1, Len(chunks) - 1)) \o chunks[Len(chunks)]

-----------------------------------------------------------------------------
(* Claims *)

\* C1: on POST /tts (both servers) and POST /tts_base64, a request answered
\* 400 never had the engine invoked, and the engine is invoked only for a
\* request that passes every validation rule (text present, not blank,
\* at most 5000 characters, 0.5 <= speed <= 2.0, accent in the pool).
C1_ValidationBeforeEngine ==
    endpoint \in SynthesisEndpoints =>
        /\ response.status = 400 => ~call.made
        /\ call.made => PassesAllRules(data)

\* C2: on every synthesis endpoint of either server, a request with
\* acceptable text (and an accent of the pool) whose speed is below 0.5 or
\* above 2.0 is rejected with SpeedOutOfRange (400); speed 0.5 and 2.0 are
\* not; an absent speed is 1.0.
C2_SpeedOutOfRangeRejected ==
    (endpoint \in SynthesisEndpoints /\ Handled /\ TextAcceptable(data)
        /\ AccentKnown(data)) =>
        /\ ~SpeedInRange(data) => Rejected("SpeedOutOfRange")
        /\ SpeedInRange(data) => response.kind # "SpeedOutOfRange"
        /\ (call.made /\ "speed" \notin data.has) => call.speed = 100

\* C3: on every synthesis endpoint of either server, a request whose
\* (non-blank) text has raw length 5001 or more is rejected with TextTooLong
\* (400) and never synthesized, whatever its other fields; raw length 5000
\* passes the length rule.
C3_TextTooLongRejected ==
    (endpoint \in SynthesisEndpoints /\ Handled /\ HasText(data)
        /\ ~Blank(data.text) /\ SpeedInRange(data) /\ AccentKnown(data)) =>
        /\ len(data.text) >= 5001 => Rejected("TextTooLong")
        /\ len(data.text) = 5000 => response.kind # "TextTooLong"

\* C4: the rules are applied in the order MissingField, EmptyText,
\* TextTooLong, SpeedOutOfRange, UnknownAccent and the first one violated
\* decides the response of POST /tts (both servers); a blank text always
\* yields EmptyText.
C4_FirstFailureWins ==
    (endpoint \in {"single/tts", "/tts"} /\ Handled
        /\ FirstViolated(data) # "none") =>
        Rejected(FirstViolated(data))

\* C5: in the multi-accent server, on POST /tts and POST /tts_base64, a
\* request that passes the earlier rules and whose accent (default
\* "british") is not in the pool is rejected with UnknownAccent (400), and
\* the message lists exactly the accents that were loaded.
C5_UnknownAccentListsPool ==
    (variant = "multi" /\ endpoint \in {"/tts", "/tts_base64"} /\ Handled
        /\ TextAcceptable(data) /\ SpeedInRange(data)
        /\ AccentOf(data) \notin DOMAIN pipelines) =>
        /\ Rejected("UnknownAccent")
        /\ response.lists
        /\ Range(response.keys) = load_ok

\* C6: temporary files do not leak: whenever no request is in flight, no
\* temporary file created for a response is left.
C6_NoTempFileLeak == pc = "idle" => temp_files = {}

C8_BritishSameAsTts ==
    (endpoint = "/tts/british" /\ Handled) =>
        LET same == text_to_speech(set(data, "accent", "british"))
        IN  IF same.call.made
            THEN call = same.call
            ELSE /\ pc = "responded"
                 /\ response.status = same.response.status
                 /\ response.kind = same.response.kind

\* C9: when the engine's segment sequence is empty the request fails with
\* NoAudioGenerated (500), never a success; no file and no payload is made.
C9_EmptySequenceIsError ==
    /\ []((generator = "exhausted" /\ yielded = <<>>) =>
            /\ pc = "responded"
            /\ response.status = 500
            /\ response.kind = "NoAudioGenerated"
            /\ response.audio = <<>>
            /\ response.file = 0)
    /\ [][(generator' = "exhausted" /\ yielded = <<>>) =>
            temp_files' = temp_files]_vars

C9_Witness ==
    /\ generator = "exhausted" /\ yielded = <<>>
    /\ endpoint = "/tts_base64"
    /\ response.kind = "NoAudioGenerated"

\* C10: no response is built before the generator is exhausted, and the
\* waveform of a successful response is the concatenation of every chunk
\* the engine produced, in order; for one chunk it is that chunk.
C10_WaveformIsConcatenation ==
    /\ pc = "drain" => response = NoResponse
    /\ response.kind \in {"File", "Base64"} =>
          /\ generator = "exhausted"
          /\ yielded # <<>>
          /\ response.audio = InOrder(yielded)
          /\ Len(yielded) = 1 => response.audio = yielded[1]

C10_Witness ==
    /\ response.kind = "File"
    /\ Len(yielded) = 2
    /\ yielded[1] # yielded[2]
    /\ response.audio = yielded[1] \o yielded[2]

====
